---- MODULE Spec2Model ----
(***************************************************************************)
(* Reservation, pricing and booking-lifecycle core of the hotel booking    *)
(* application (hotel_app/models.py, views.py, forms.py, admin.py).        *)
(* Dates are day numbers; "today" is the clock read by datetime.now().     *)
(***************************************************************************)
EXTENDS Integers, Sequences, FiniteSets, TLC

VARIABLES
    today,          \* the clock: datetime.now().date() / timezone.now().date()
    room,           \* Room table: room id -> [room_type, is_active, status]
    rates,          \* RoomRate table: set of [room_type, start_date, end_date, price]
    bookings,       \* Booking table: sequence, the index is the primary key
    payments,       \* Payment table: sequence
    pc,             \* position of each create_booking request in its handler
    req,            \* the cleaned data a create_booking request holds
    message,        \* the last message create_booking left for the user
    current_price,  \* context of the last room_detail response
    availability,   \* JSON of the last check_availability response
    overlapping,    \* last "Booking Validity" field rendered by BookingAdmin
    profile,        \* CustomUser table: user -> first_name
    promo,          \* a PromoCode row
    valid_now       \* last "Valid Now" field rendered by PromoCodeAdmin

vars == <<today, room, rates, bookings, payments, pc, req, message,
          current_price, availability, overlapping, profile, promo, valid_now>>

----------------------------------------------------------------------------
(* Bounds of the model *)

MaxDay == 3         \* dates range over 0..MaxDay
MaxToday == 1       \* the clock ranges over 0..MaxToday
MaxBookings == 2    \* rows of the Booking table
MaxPayments == 1    \* rows of the Payment table
NumProcs == 2       \* concurrent create_booking requests
MaxRates == 2       \* rows of the RoomRate table
MaxSeqBookings == 1 \* rows of the Booking table under SpecPricing, SpecAvail
MaxTableRows == 2   \* rows of the Booking tables SpecOverlap starts from
MaxTableDay == 2    \* their dates range over 0..MaxTableDay
MaxLifecyclePayments == 2 \* rows of the Payment table under SpecLifecycle
MaxUses == 2        \* max_uses and times_used of the PromoCode range over 0..MaxUses

(* Program constants *)

MaxNights == 365    \* forms.py: 'Booking period cannot exceed 1 year.'
MinGuests == 1      \* forms.py: num_guests min_value
MaxGuests == 8      \* forms.py: num_guests max_value

Days == 0..MaxDay
Procs == 1..NumProcs
RoomIds == {1, 2}
Users == {"guest", "other", "staff"}

----------------------------------------------------------------------------
(* models.py *)

STATUS_CHOICES == {"pending", "confirmed", "checked_in", "checked_out", "cancelled"}

ROOM_STATUS_CHOICES == {"available", "occupied", "maintenance", "blocked"}

\* RoomType rows: name -> base_price, capacity
RoomType == [Double |-> [base_price |-> 2000, capacity |-> 2],
             Suite  |-> [base_price |-> 3500, capacity |-> 3]]

RoomTypeIds == DOMAIN RoomType

is_staff(u) == u = "staff"

\* CustomUser.first_name values: blank, or a name
FirstNames == {"", "Ana"}

BookingIds == 1..Len(bookings)

\* Booking.get_num_nights
get_num_nights(b) == b.check_out - b.check_in

is_overlapping_halfopen_bug(id) ==
    \E o \in BookingIds \ {id} :
        /\ bookings[o].room = bookings[id].room
        /\ bookings[o].status \in {"pending", "confirmed", "checked_in"}
        /\ bookings[o].check_in <= bookings[id].check_out
        /\ bookings[o].check_out >= bookings[id].check_in

\* Booking.is_overlapping: filter(room, status__in, check_in__lt, check_out__gt)
\* .exclude(pk=self.pk).exists()
is_overlapping(id) ==
    LET qs == {o \in BookingIds :
                  /\ bookings[o].room = bookings[id].room
                  /\ bookings[o].status \in {"pending", "confirmed", "checked_in"}
                  /\ bookings[o].check_in < bookings[id].check_out
                  /\ bookings[o].check_out > bookings[id].check_in}
    IN  (qs \ {id}) # {}

\* Booking.can_cancel
can_cancel(id) ==
    IF bookings[id].status \in {"checked_in", "checked_out", "cancelled"}
    THEN FALSE
    ELSE (bookings[id].check_in - today) > 1

\* PromoCode rows; max_uses is null (unlimited) or a number
PromoRows ==
    [is_active : BOOLEAN, valid_from : 0..MaxToday, valid_to : 0..MaxToday,
     max_uses : {[null |-> TRUE, value |-> 0]}
                    \cup [null : {FALSE}, value : 0..MaxUses],
     times_used : 0..MaxUses]

\* "if self.max_uses": None and 0 are false in a condition
max_uses_truthy(c) == ~c.max_uses.null /\ c.max_uses.value # 0

\* PromoCode.is_valid_now
is_valid_now(c) ==
    IF ~c.is_active THEN FALSE
    ELSE IF ~(c.valid_from <= today /\ today <= c.valid_to) THEN FALSE
    ELSE IF max_uses_truthy(c) /\ c.times_used >= c.max_uses.value THEN FALSE
    ELSE TRUE

----------------------------------------------------------------------------
(* forms.py *)

\* a form whose clean() does not test check_in against today
BookingForm_is_valid_allowing_past(ci, co, g) ==
    /\ g >= MinGuests /\ g <= MaxGuests
    /\ ~(co <= ci)
    /\ ~((co - ci) > MaxNights)

\* BookingForm: field validation and clean()
BookingForm_is_valid(ci, co, g) ==
    /\ g >= MinGuests /\ g <= MaxGuests
    /\ ~(co <= ci)
    /\ ~(ci < today)
    /\ ~((co - ci) > MaxNights)

----------------------------------------------------------------------------
(* views.py: pricing *)

\* room_type.rates.filter(start_date__lte=d, end_date__gte=d)
rates_filter(rt, d) ==
    {x \in rates : x.room_type = rt /\ x.start_date <= d /\ x.end_date >= d}

\* .first() under Meta.ordering = ['-start_date']: a row with the greatest
\* start_date; the database leaves the order of rows with equal start_date
\* open, so every such row is a possible result. {} stands for None.
rates_first(rt, d) ==
    {x \in rates_filter(rt, d) :
        \A y \in rates_filter(rt, d) : y.start_date <= x.start_date}

\* seasonal_rate.price if seasonal_rate else room_type.base_price:
\* the set of values the expression can take
nightly_rate(rt, d) ==
    IF rates_first(rt, d) = {}
    THEN {RoomType[rt].base_price}
    ELSE {x.price : x \in rates_first(rt, d)}

----------------------------------------------------------------------------
(* views.py: create_booking *)

\* an overlap test that only finds the bookings starting inside the request
overlap_starts_inside(r, ci, co) ==
    \E i \in BookingIds :
        /\ bookings[i].room = r
        /\ bookings[i].status \in {"confirmed", "checked_in"}
        /\ bookings[i].check_in < co
        /\ bookings[i].check_in >= ci

\* Booking.objects.filter(room=room, status__in=['confirmed', 'checked_in'],
\*   check_in__lt=check_out, check_out__gt=check_in).exists()
overlap(r, ci, co) ==
    \E i \in BookingIds :
        /\ bookings[i].room = r
        /\ bookings[i].status \in {"confirmed", "checked_in"}
        /\ bookings[i].check_in < co
        /\ bookings[i].check_out > ci

NoReq == [user |-> "guest", room |-> 1, check_in |-> 0, check_out |-> 0, num_guests |-> 0]

\* a create_booking that tests the overlap before the capacity
create_booking_branch_overlap_first(r, ci, co, g) ==
    IF ~room[r].is_active THEN "not_found"
    ELSE IF ~BookingForm_is_valid(ci, co, g) THEN "invalid"
    ELSE IF overlap(r, ci, co) THEN "conflict"
    ELSE IF g > RoomType[room[r].room_type].capacity THEN "capacity"
    ELSE "checked"

\* the branch create_booking takes for a POST: the room lookup (404), the form
\* validation, the capacity test, the overlap test, or on to the insert
create_booking_branch(r, ci, co, g) ==
    IF ~room[r].is_active THEN "not_found"
    ELSE IF ~BookingForm_is_valid(ci, co, g) THEN "invalid"
    ELSE IF g > RoomType[room[r].room_type].capacity THEN "capacity"
    ELSE IF overlap(r, ci, co) THEN "conflict"
    ELSE "checked"

\* create_booking up to the overlap query.  The request ends with a response
\* (message "not_found", "invalid", "capacity", "conflict") or goes on to the
\* price calculation and the insert, holding its cleaned data.
create_booking_check(p, u, r, ci, co, g) ==
    /\ pc[p] = "idle"
    /\ LET branch == create_booking_branch(r, ci, co, g) IN
          /\ pc' = [pc EXCEPT ![p] = IF branch = "checked" THEN "checked" ELSE "idle"]
          /\ req' = [req EXCEPT ![p] =
                IF branch = "checked"
                THEN [user |-> u, room |-> r, check_in |-> ci,
                      check_out |-> co, num_guests |-> g]
                ELSE NoReq]
          /\ message' = IF branch = "checked" THEN message ELSE branch
    /\ UNCHANGED <<today, room, rates, bookings, payments,
                   current_price, availability, overlapping,
                   profile, promo, valid_now>>

\* a total that charges the check-out day as a night
total_price_with_checkout_day(num_nights, rate) == (num_nights + 1) * rate

\* total_price = num_nights * nightly_rate
total_price(num_nights, rate) == num_nights * rate

\* booking.guest_name: the user's name, the username when it is blank
guest_name(u) == IF profile[u] = "" THEN u ELSE profile[u]

\* the Booking row create_booking saves
new_booking(q, price) ==
    [user |-> q.user, room |-> q.room, check_in |-> q.check_in,
     check_out |-> q.check_out, num_guests |-> q.num_guests,
     guest_name |-> guest_name(q.user),
     status |-> "pending", total_price |-> price]

\* create_booking from the price calculation to booking.save()
create_booking_save(p) ==
    /\ pc[p] = "checked"
    /\ \E rate \in nightly_rate(room[req[p].room].room_type, today) :
          bookings' = Append(bookings,
              new_booking(req[p],
                  total_price(req[p].check_out - req[p].check_in, rate)))
    /\ pc' = [pc EXCEPT ![p] = "idle"]
    /\ req' = [req EXCEPT ![p] = NoReq]
    /\ message' = "created"
    /\ UNCHANGED <<today, room, rates, payments,
                   current_price, availability, overlapping,
                   profile, promo, valid_now>>

----------------------------------------------------------------------------
(* views.py: user_profile *)

\* POST 'first_name' values: a name, or no value
FirstNameInputs == FirstNames \cup {"None"}

\* user_profile (POST): user.first_name = POST.get('first_name', user.first_name)
user_profile(u, first_name) ==
    /\ profile' = [profile EXCEPT ![u] = IF first_name = "None" THEN @ ELSE first_name]
    /\ UNCHANGED <<today, room, rates, bookings, payments, pc, req, message,
                   current_price, availability, overlapping, promo, valid_now>>

----------------------------------------------------------------------------
(* views.py: create_payment *)

\* POST 'amount' values: a number, a text that is no number, or no value
Amounts == {[kind |-> "number", value |-> 1000], [kind |-> "number", value |-> 0],
            [kind |-> "number", value |-> -50], [kind |-> "text", value |-> 0],
            [kind |-> "missing", value |-> 0]}

\* an amount test that lets zero through
amount_ok_allowing_zero(a) == a.kind = "number" /\ ~(a.value < 0)

\* float(amount) succeeds and amount > 0
amount_ok(a) == a.kind = "number" /\ ~(a.value <= 0)

\* a status update that confirms whatever the status was
status_after_payment_always_confirms(s) == "confirmed"

\* booking.status after the "Update booking status" block of create_payment
status_after_payment(s) == IF s = "pending" THEN "confirmed" ELSE s

create_payment(u, id, a) ==
    /\ id \in BookingIds
    /\ ~(bookings[id].user # u /\ ~is_staff(u))
    /\ amount_ok(a)
    /\ payments' = Append(payments,
           [booking |-> id, amount |-> a.value, status |-> "completed"])
    /\ bookings' = [bookings EXCEPT ![id].status = status_after_payment(@)]
    /\ UNCHANGED <<today, room, rates, pc, req, message,
                   current_price, availability, overlapping,
                   profile, promo, valid_now>>

\* create_payment that ends without writing: access denied or 'Invalid amount.'
create_payment_rejected(u, id, a) ==
    /\ id \in BookingIds
    /\ (bookings[id].user # u /\ ~is_staff(u)) \/ ~amount_ok(a)
    /\ UNCHANGED vars

----------------------------------------------------------------------------
(* views.py: update_booking_status; admin.py: BookingAdmin actions *)

\* POST 'status' values: the choices, a value outside them, no value
StatusInputs == STATUS_CHOICES \cup {"archived", "None"}

\* a status update that stores whatever value was posted
status_after_update_unchecked(s, new_status) == new_status

\* booking.status after update_booking_status(new_status)
status_after_update(s, new_status) ==
    IF new_status \in STATUS_CHOICES THEN new_status ELSE s

update_booking_status(u, id, new_status) ==
    /\ is_staff(u)
    /\ id \in BookingIds
    /\ bookings' = [bookings EXCEPT ![id].status = status_after_update(@, new_status)]
    /\ UNCHANGED <<today, room, rates, payments, pc, req, message,
                   current_price, availability, overlapping,
                   profile, promo, valid_now>>

\* queryset.filter(status='pending').update(status='confirmed')
confirm_booking(queryset) ==
    /\ queryset # {}
    /\ bookings' = [i \in BookingIds |->
          IF i \in queryset /\ bookings[i].status = "pending"
          THEN [bookings[i] EXCEPT !.status = "confirmed"]
          ELSE bookings[i]]
    /\ UNCHANGED <<today, room, rates, payments, pc, req, message,
                   current_price, availability, overlapping,
                   profile, promo, valid_now>>

\* queryset.filter(status__in=['pending', 'confirmed']).update(status='cancelled')
cancel_booking(queryset) ==
    /\ queryset # {}
    /\ bookings' = [i \in BookingIds |->
          IF i \in queryset /\ bookings[i].status \in {"pending", "confirmed"}
          THEN [bookings[i] EXCEPT !.status = "cancelled"]
          ELSE bookings[i]]
    /\ UNCHANGED <<today, room, rates, payments, pc, req, message,
                   current_price, availability, overlapping,
                   profile, promo, valid_now>>

\* the change form of BookingAdmin: staff saves the fields of the fieldsets,
\* room, check_in and check_out among them
BookingAdmin_save(u, id, r, ci, co) ==
    /\ is_staff(u)
    /\ id \in BookingIds
    /\ bookings' = [bookings EXCEPT ![id].room = r, ![id].check_in = ci,
                                    ![id].check_out = co]
    /\ UNCHANGED <<today, room, rates, payments, pc, req, message,
                   current_price, availability, overlapping,
                   profile, promo, valid_now>>

\* BookingAdmin.overlapping: the read-only "Booking Validity" field
admin_overlapping(id) ==
    /\ id \in BookingIds
    /\ overlapping' = [id |-> id, value |-> is_overlapping(id)]
    /\ UNCHANGED <<today, room, rates, bookings, payments, pc, req, message,
                   current_price, availability,
                   profile, promo, valid_now>>

\* the clock moves to the next day
Tick ==
    /\ today < MaxToday
    /\ today' = today + 1
    /\ UNCHANGED <<room, rates, bookings, payments, pc, req, message,
                   current_price, availability, overlapping,
                   profile, promo, valid_now>>

----------------------------------------------------------------------------
(* admin.py: PromoCodeAdmin *)

\* the change form of PromoCodeAdmin: staff saves the fields of the fieldsets
PromoCodeAdmin_save(u, row) ==
    /\ is_staff(u)
    /\ promo' = row
    /\ UNCHANGED <<today, room, rates, bookings, payments, pc, req, message,
                   current_price, availability, overlapping, profile, valid_now>>

\* PromoCodeAdmin.is_valid_now_badge: the "Valid Now" column
is_valid_now_badge ==
    /\ valid_now' = [rendered |-> TRUE, value |-> is_valid_now(promo)]
    /\ UNCHANGED <<today, room, rates, bookings, payments, pc, req, message,
                   current_price, availability, overlapping, profile, promo>>

----------------------------------------------------------------------------
(* views.py: room_detail, check_availability *)

\* room_detail: current_price of the context, the rate for today
room_detail(r) ==
    /\ room[r].is_active
    /\ current_price' \in nightly_rate(room[r].room_type, today)
    /\ UNCHANGED <<today, room, rates, bookings, payments, pc, req, message,
                   availability, overlapping,
                   profile, promo, valid_now>>

\* booked_rooms: values_list('room_id') of the confirmed/checked_in bookings
\* that intersect [check_in, check_out)
booked_rooms(ci, co) ==
    {bookings[i].room : i \in {j \in BookingIds :
        /\ bookings[j].status \in {"confirmed", "checked_in"}
        /\ bookings[j].check_in < co
        /\ bookings[j].check_out > ci}}

\* available_rooms: Room.objects.filter(is_active, status='available',
\*   room_type_id, room_type__capacity__gte).exclude(id__in=booked_rooms)
available_rooms(rt, capacity, ci, co) ==
    {r \in RoomIds :
        /\ room[r].is_active
        /\ room[r].status = "available"
        /\ room[r].room_type = rt
        /\ RoomType[room[r].room_type].capacity >= capacity} \ booked_rooms(ci, co)

\* POST 'room_type_id' values: a room type, or no value
RoomTypeInputs == RoomTypeIds \cup {"None"}

check_availability(rt, capacity, ci, co) ==
    /\ availability' =
          IF ci >= co \/ ci < today
          THEN [error |-> TRUE, count |-> 0, nights |-> 0]
          ELSE [error |-> FALSE,
                count |-> Cardinality(available_rooms(rt, capacity, ci, co)),
                nights |-> co - ci]
    /\ UNCHANGED <<today, room, rates, bookings, payments, pc, req, message,
                   current_price, overlapping,
                   profile, promo, valid_now>>

----------------------------------------------------------------------------
(* The state after deployment: an inventory, no bookings, no requests *)

\* num_guests values of the requests
GuestInputs == {2, 3}

\* Room rows
Rooms0 == [r \in RoomIds |->
             [room_type |-> IF r = 1 THEN "Double" ELSE "Suite",
              is_active |-> TRUE, status |-> "available"]]

\* the PromoCode row as staff entered it: active, for every day, one use,
\* times_used at its default
PromoCode0 ==
    [is_active |-> TRUE, valid_from |-> 0, valid_to |-> MaxToday,
     max_uses |-> [null |-> FALSE, value |-> 1], times_used |-> 0]

\* no request in progress, nothing rendered yet
InitRequests ==
    /\ today = 0
    /\ payments = <<>>
    /\ pc = [p \in Procs |-> "idle"]
    /\ req = [p \in Procs |-> NoReq]
    /\ message = "none"
    /\ current_price = 0
    /\ availability = [error |-> TRUE, count |-> 0, nights |-> 0]
    /\ overlapping = [id |-> 0, value |-> FALSE]
    /\ profile = [u \in Users |-> ""]
    /\ promo = PromoCode0
    /\ valid_now = [rendered |-> FALSE, value |-> FALSE]

Init ==
    /\ InitRequests
    /\ bookings = <<>>
    /\ room = Rooms0
    /\ rates = {}

\* the requests that are past the overlap test and have not inserted yet
InFlight == {p \in Procs : pc[p] = "checked"}

\* create_booking requests of the logged-in guest, by the workers procs, taken
\* while the Booking table, the rows about to be inserted counted, has fewer
\* than cap rows
Reserve(procs, cap) ==
    \/ /\ Len(bookings) + Cardinality(InFlight) < cap
       /\ \E p \in procs, r \in RoomIds, ci \in Days, co \in Days, g \in GuestInputs :
             create_booking_check(p, "guest", r, ci, co, g)
    \/ \E p \in procs : create_booking_save(p)

\* the staff operations that write the status of bookings
Staff ==
    \/ \E u \in Users, id \in BookingIds, s \in StatusInputs :
          update_booking_status(u, id, s)
    \/ \E queryset \in SUBSET BookingIds : confirm_booking(queryset)
    \/ \E queryset \in SUBSET BookingIds : cancel_booking(queryset)

\* payments
Pay ==
    \/ /\ Len(payments) < MaxPayments
       /\ \E u \in Users, id \in BookingIds, a \in Amounts : create_payment(u, id, a)
    \/ \E u \in Users, id \in BookingIds, a \in Amounts : create_payment_rejected(u, id, a)

\* payments, taken while the Payment table has fewer than MaxLifecyclePayments rows
PayAgain ==
    \/ /\ Len(payments) < MaxLifecyclePayments
       /\ \E u \in Users, id \in BookingIds, a \in Amounts : create_payment(u, id, a)
    \/ \E u \in Users, id \in BookingIds, a \in Amounts : create_payment_rejected(u, id, a)

\* The whole system: concurrent create_booking requests, payments, the staff
\* operations and the clock
Next == Reserve(Procs, MaxBookings) \/ Pay \/ Staff \/ Tick

Spec == Init /\ [][Next]_vars

----------------------------------------------------------------------------
(* Pricing: the RoomRate table is any table staff may have entered *)

\* price values of the RoomRate rows
RatePrices == {4000, 5000}

\* RoomRate rows for the Suite type; the Double type has no seasonal rate
RateRows ==
    {x \in [room_type : {"Suite"}, start_date : Days, end_date : Days, price : RatePrices] :
        x.start_date <= x.end_date}

InitPricing ==
    /\ InitRequests
    /\ bookings = <<>>
    /\ room = Rooms0
    /\ rates \in {t \in SUBSET RateRows : Cardinality(t) <= MaxRates}

\* one create_booking request at a time, room_detail pages, the clock
NextPricing ==
    \/ Reserve({1}, MaxSeqBookings)
    \/ \E r \in RoomIds : room_detail(r)
    \/ Tick

SpecPricing == InitPricing /\ [][NextPricing]_vars

----------------------------------------------------------------------------
(* Availability: the rooms have any operational status and active flag *)

\* 'capacity' values of the availability requests
CapacityInputs == {2, 3}

InitAvail ==
    /\ InitRequests
    /\ bookings = <<>>
    /\ rates = {}
    /\ \E st \in [RoomIds -> ROOM_STATUS_CHOICES], act \in [RoomIds -> BOOLEAN] :
          room = [r \in RoomIds |->
                    [Rooms0[r] EXCEPT !.status = st[r], !.is_active = act[r]]]

\* one create_booking request at a time, confirmations, availability queries
NextAvail ==
    \/ Reserve({1}, MaxSeqBookings)
    \/ \E queryset \in SUBSET BookingIds : confirm_booking(queryset)
    \/ \E rt \in RoomTypeInputs, capacity \in CapacityInputs, ci \in Days, co \in Days :
          check_availability(rt, capacity, ci, co)

SpecAvail == InitAvail /\ [][NextAvail]_vars

----------------------------------------------------------------------------
(* The Booking Validity field, over any Booking table *)

\* Booking rows: any room, dates and status, priced at the base price
TableRows ==
    {[user |-> "guest", room |-> r, check_in |-> stay[1], check_out |-> stay[2],
      num_guests |-> 2, guest_name |-> "guest", status |-> st,
      total_price |-> (stay[2] - stay[1]) * RoomType[Rooms0[r].room_type].base_price] :
        r \in RoomIds,
        stay \in {t \in (0..MaxTableDay) \X (0..MaxTableDay) : t[1] < t[2]},
        st \in STATUS_CHOICES}

InitOverlap ==
    /\ InitRequests
    /\ room = Rooms0
    /\ rates = {}
    /\ bookings \in UNION {[1..n -> TableRows] : n \in 0..MaxTableRows}

NextOverlap == \E id \in BookingIds : admin_overlapping(id)

SpecOverlap == InitOverlap /\ [][NextOverlap]_vars

----------------------------------------------------------------------------
(* The life of one booking: created, paid for more than once, moved and     *)
(* edited by staff, while users edit their profiles                         *)

NextLifecycle ==
    \/ Reserve({1}, MaxSeqBookings)
    \/ PayAgain
    \/ Staff
    \/ \E u \in Users, first_name \in FirstNameInputs : user_profile(u, first_name)
    \/ \E u \in Users, id \in BookingIds, r \in RoomIds, ci \in Days, co \in Days :
          BookingAdmin_save(u, id, r, ci, co)

SpecLifecycle == Init /\ [][NextLifecycle]_vars

----------------------------------------------------------------------------
(* The PromoCode row, edited by staff, while bookings are made *)

NextPromo ==
    \/ Reserve({1}, MaxSeqBookings)
    \/ \E u \in Users, row \in PromoRows : PromoCodeAdmin_save(u, row)
    \/ is_valid_now_badge
    \/ Tick

SpecPromo == Init /\ [][NextPromo]_vars

----------------------------------------------------------------------------
(* Properties *)

\* the nights of the half-open interval [ci, co)
StayNights(ci, co) == ci..(co - 1)

\* two half-open intervals share a night
Intersect(ci1, co1, ci2, co2) == StayNights(ci1, co1) \cap StayNights(ci2, co2) # {}

ActiveStatuses == {"pending", "confirmed", "checked_in"}

\* C1: for each room, no two bookings whose status is pending, confirmed or
\* checked_in have intersecting [check_in, check_out) intervals.
C1_NoDoubleBooking ==
    \A i \in BookingIds, j \in BookingIds :
        (/\ i # j
         /\ bookings[i].room = bookings[j].room
         /\ bookings[i].status \in ActiveStatuses
         /\ bookings[j].status \in ActiveStatuses)
        => ~Intersect(bookings[i].check_in, bookings[i].check_out,
                      bookings[j].check_in, bookings[j].check_out)

\* request p inserts its booking in this step
Inserts(p) == pc[p] = "checked" /\ pc'[p] = "idle" /\ Len(bookings') = Len(bookings) + 1

\* C2: the overlap test and the insert of create_booking are one atomic unit
\* per room: two concurrent requests for the same room with intersecting date
\* ranges are never both past the overlap test (both having observed no
\* conflict) with their inserts, which nothing can stop any more, still to come.
C2_CheckAndInsertAtomic ==
    \A p \in Procs, q \in Procs :
        (/\ p # q
         /\ pc[p] = "checked"
         /\ pc[q] = "checked"
         /\ req[p].room = req[q].room)
        => ~Intersect(req[p].check_in, req[p].check_out,
                      req[q].check_in, req[q].check_out)

\* a confirmed or checked_in booking of room r intersects [ci, co)
ConfirmedIntersects(r, ci, co) ==
    \E i \in BookingIds :
        /\ bookings[i].room = r
        /\ bookings[i].status \in {"confirmed", "checked_in"}
        /\ Intersect(bookings[i].check_in, bookings[i].check_out, ci, co)

Refusals == {"not_found", "invalid", "capacity", "conflict"}

\* C3: a create_booking request for a room and a date range that intersects a
\* confirmed or checked_in booking of that room is refused and inserts nothing:
\* the Booking table is unchanged and the request does not go on to the insert;
\* when the request is otherwise acceptable (active room, valid form, guests
\* within capacity) the refusal is the conflict one.
C3_ConflictRejected ==
    [][\A p \in Procs :
          (pc[p] = "idle" /\ (pc'[p] # pc[p] \/ message' # message))
          => \A r \in RoomIds, ci \in Days, co \in Days, g \in GuestInputs :
               (ConfirmedIntersects(r, ci, co) /\ create_booking_check(p, "guest", r, ci, co, g))
               => /\ bookings' = bookings
                  /\ pc'[p] = "idle"
                  /\ message' \in Refusals
                  /\ (/\ room[r].is_active
                      /\ BookingForm_is_valid(ci, co, g)
                      /\ g <= RoomType[room[r].room_type].capacity) => message' = "conflict"]_vars

\* C3 witness: a request was refused as a conflict with the confirmed booking
\* in the table
C3_Witness ==
    /\ message = "conflict"
    /\ Len(bookings) = 1
    /\ bookings[1].status = "confirmed"

\* C4: Booking.is_overlapping is true exactly when another booking (another
\* primary key) of the same room with status pending, confirmed or checked_in
\* has check_in < this check_out and check_out > this check_in; a booking that
\* starts on the day the others end has no conflict, and cancelled or
\* checked_out bookings never conflict.
C4_IsOverlapping ==
    overlapping.id \in BookingIds =>
        LET b == bookings[overlapping.id]
            others == {o \in BookingIds \ {overlapping.id} : bookings[o].room = b.room}
        IN  /\ overlapping.value <=>
                  \E o \in others :
                      /\ bookings[o].status \in ActiveStatuses
                      /\ bookings[o].check_in < b.check_out
                      /\ bookings[o].check_out > b.check_in
            /\ (\A o \in others : bookings[o].check_out = b.check_in)
                  => ~overlapping.value
            /\ (\A o \in others : bookings[o].status \in {"cancelled", "checked_out"})
                  => ~overlapping.value

\* C4 witness: the field was rendered for a booking that another active
\* booking of its room overlaps
C4_Witness ==
    /\ overlapping.id \in BookingIds
    /\ overlapping.value
    /\ Len(bookings) = 2

\* the rooms the availability query is to count: active, of the room type,
\* with the capacity, and free of pending, confirmed and checked_in bookings
\* over [ci, co)
FreeRooms(rt, capacity, ci, co) ==
    {r \in RoomIds :
        /\ room[r].is_active
        /\ room[r].room_type = rt
        /\ RoomType[room[r].room_type].capacity >= capacity
        /\ ~\E i \in BookingIds :
              /\ bookings[i].room = r
              /\ bookings[i].status \in ActiveStatuses
              /\ Intersect(bookings[i].check_in, bookings[i].check_out, ci, co)}

\* C5: for valid dates check_availability counts exactly the active rooms of
\* the room type with capacity >= the requested one and with no pending,
\* confirmed or checked_in booking intersecting [check_in, check_out); the
\* room status and other booking statuses do not affect the count.
C5_AvailabilityCount ==
    [][\A rt \in RoomTypeIds, capacity \in CapacityInputs, ci \in Days, co \in Days :
          (ci < co /\ ci >= today /\ check_availability(rt, capacity, ci, co))
          => availability'.count = Cardinality(FreeRooms(rt, capacity, ci, co))]_vars

\* the rate of room type rt for the night d: the price of a RoomRate with the
\* latest start_date among those whose [start_date, end_date] contains d, the
\* base price when there is none
Quote(rt, d) ==
    LET containing == {x \in rates : x.room_type = rt /\ x.start_date <= d /\ d <= x.end_date}
        latest == {x \in containing : \A y \in containing : y.start_date <= x.start_date}
    IN  IF containing = {} THEN {RoomType[rt].base_price} ELSE {x.price : x \in latest}

RECURSIVE StayTotals(_, _, _)
\* the sums of the nightly quotes over the nights of [ci, co)
StayTotals(rt, ci, co) ==
    IF ci >= co THEN {0}
    ELSE {q + t : q \in Quote(rt, ci), t \in StayTotals(rt, ci + 1, co)}

\* the row a request inserts in this step
Inserted == bookings'[Len(bookings')]

\* C6: the total_price of a booking created by create_booking is the sum of the
\* nightly rates quoted for each night d, check_in <= d < check_out.
C6_TotalIsSumOfNightlyQuotes ==
    [][\A p \in Procs :
          Inserts(p) => Inserted.total_price \in
              StayTotals(room[req[p].room].room_type, req[p].check_in, req[p].check_out)]_vars

\* C7: the rate quoted for a room type and a date is the price of the RoomRate
\* with the latest start_date among those containing the date, the base price
\* when there is none, and is one value when several rates overlap: every
\* RoomRate with the latest start_date gives the quoted price.
C7_QuoteLatestStartDeterministic ==
    [][\A r \in RoomIds :
          room_detail(r) =>
              LET rt == room[r].room_type
                  containing == {x \in rates : x.room_type = rt
                                    /\ x.start_date <= today /\ today <= x.end_date}
              IN  /\ containing = {} => current_price' = RoomType[rt].base_price
                  /\ \A x \in containing :
                        (\A y \in containing : y.start_date <= x.start_date)
                        => current_price' = x.price]_vars

\* C8: when the room's RoomType has no RoomRate at all, the booking
\* create_booking inserts for N nights has total_price = N * base_price; the
\* booking is inserted with status pending.
C8_BasePriceAndPending ==
    [][\A p \in Procs :
          Inserts(p) =>
              LET rt == room[req[p].room].room_type IN
              /\ Inserted.status = "pending"
              /\ {x \in rates : x.room_type = rt} = {}
                    => Inserted.total_price =
                          (req[p].check_out - req[p].check_in) * RoomType[rt].base_price]_vars

\* C8 witness: a 3-night booking of the Double room, 6000 at the base price of
\* 2000, pending, while the Suite type has seasonal rates
C8_Witness ==
    /\ message = "created"
    /\ rates # {}
    /\ Len(bookings) = 1
    /\ bookings[1].room = 1
    /\ bookings[1].check_out - bookings[1].check_in = 3
    /\ bookings[1].total_price = 6000
    /\ bookings[1].status = "pending"

\* C9: a booking's status changes to cancelled only in a step where its
\* previous status is pending or confirmed and check_in - today > 1.
C9_CancelOnlyWithinRules ==
    [][\A i \in BookingIds :
          (bookings[i].status # "cancelled" /\ bookings'[i].status = "cancelled")
          => /\ bookings[i].status \in {"pending", "confirmed"}
             /\ (bookings[i].check_in - today) > 1]_vars

\* position of a status on the path pending, confirmed, checked_in, checked_out
Rank(s) == CASE s = "pending" -> 1 [] s = "confirmed" -> 2
             [] s = "checked_in" -> 3 [] s = "checked_out" -> 4 [] OTHER -> 5

\* C10: a status only moves forward on the path pending, confirmed, checked_in,
\* checked_out, or to cancelled, and a cancelled or checked_out booking keeps
\* its status.
C10_ForwardOnly ==
    [][\A i \in BookingIds :
          \/ bookings'[i].status = bookings[i].status
          \/ /\ bookings[i].status \notin {"cancelled", "checked_out"}
             /\ \/ bookings'[i].status = "cancelled"
                \/ Rank(bookings'[i].status) > Rank(bookings[i].status)]_vars

\* a step that adds a row to the Payment table
Pays == Len(payments') = Len(payments) + 1

\* the booking of the row a step adds to the Payment table
Paid == payments'[Len(payments')].booking

C12_PaidIsNotPending ==
    \A k \in 1..Len(payments) :
        payments[k].status = "completed" => bookings[payments[k].booking].status # "pending"

\* C13: update_booking_status with a target value outside the status choices
\* (a missing value included) leaves the booking and every other record
\* unchanged, and the status of every booking is one of the choices.
C13_InvalidStatusRejected ==
    [][/\ \A id \in BookingIds, new_status \in StatusInputs \ STATUS_CHOICES :
             update_booking_status("staff", id, new_status) => vars' = vars
       /\ \A i \in 1..Len(bookings') : bookings'[i].status \in STATUS_CHOICES]_vars

\* C13 witness: staff has moved a booking with update_booking_status, the only
\* operation that checks a booking in
C13_Witness ==
    /\ Len(bookings) = 1
    /\ bookings[1].status = "checked_in"

C15_OverCapacityRejected ==
    [][\A p \in Procs :
          /\ (pc[p] = "idle" /\ (pc'[p] # pc[p] \/ message' # message))
             => \A r \in RoomIds, ci \in Days, co \in Days, g \in GuestInputs :
                  (/\ g > RoomType[room[r].room_type].capacity
                   /\ create_booking_check(p, "guest", r, ci, co, g))
                  => /\ UNCHANGED <<bookings, payments, room, rates, profile, promo>>
                     /\ pc'[p] = "idle"
                     /\ message' \in {"not_found", "invalid", "capacity"}
                     /\ (room[r].is_active /\ BookingForm_is_valid(ci, co, g))
                           => message' = "capacity"
          /\ Inserts(p)
             => Inserted.num_guests <= RoomType[room[Inserted.room].room_type].capacity]_vars

\* C15 witness: a request was refused for its guest count while the table
\* holds a confirmed booking
C15_Witness ==
    /\ message = "capacity"
    /\ Len(bookings) = 1
    /\ bookings[1].status = "confirmed"
    /\ bookings[1].room = 1

\* C16: PromoCode.is_valid_now is true exactly when the active flag is set,
\* valid_from <= today <= valid_to, and max_uses is unset or times_used <
\* max_uses, for every value of max_uses, 0 included.
C16_IsValidNow ==
    [][is_valid_now_badge =>
          (valid_now'.value <=>
              /\ promo.is_active
              /\ promo.valid_from <= today /\ today <= promo.valid_to
              /\ (promo.max_uses.null \/ promo.times_used < promo.max_uses.value))]_vars

\* C17: for a PromoCode with max_uses set, times_used never exceeds max_uses
\* in any reachable state.
C17_TimesUsedWithinCap ==
    ~promo.max_uses.null => promo.times_used <= promo.max_uses.value

\* C18: once a booking is created, no operation of the system changes its
\* room, check_in, check_out, total_price or guest snapshot: the operations
\* change at most its status.
C18_OnlyStatusChanges ==
    [][/\ Len(bookings') >= Len(bookings)
       /\ \A i \in BookingIds :
             [bookings'[i] EXCEPT !.status = bookings[i].status] = bookings[i]]_vars

C20_AvailabilityAgreesWithBooking ==
    [][\A rt \in RoomTypeIds, capacity \in CapacityInputs, ci \in Days, co \in Days :
          (check_availability(rt, capacity, ci, co) /\ ~availability'.error)
          => \A r \in RoomIds :
                /\ r \in available_rooms(rt, capacity, ci, co)
                      => create_booking_branch(r, ci, co, capacity) = "checked"
                /\ (room[r].room_type = rt
                    /\ create_booking_branch(r, ci, co, capacity) = "checked")
                      => r \in available_rooms(rt, capacity, ci, co)]_vars

====
